---- MODULE Spec2Model ----
(***************************************************************************)
(* The submission judging workflow of uzleetcode: the judge client         *)
(* call_gemini_api_structured (src/ai_judge.py), the submit handler        *)
(* create_submission and the retrieval handler get_submission_result       *)
(* (src/main.py), over the tables of src/models.py.                        *)
(*                                                                         *)
(* Python strings are TLA+ strings (f-strings are \o concatenations), a    *)
(* JSON text is the sequence of its lexemes, a Python value is a record    *)
(* [kind, items] whose items are the <<key, value>> pairs of a dict in     *)
(* insertion order.  A handler is cut into steps at its commits and at its *)
(* calls of the external service, the points where another request of the  *)
(* same server can observe or change the database.                         *)
(***************************************************************************)
EXTENDS Naturals, Sequences, FiniteSets, TLC

\* Number of submit requests the server handles in one behaviour.
NumRequests == 2

Requests == 1..NumRequests

(***************************************************************************)
(* Python values                                                           *)
(***************************************************************************)
PyNone == [kind |-> "none", items |-> <<>>]
PyDict(pairs) == [kind |-> "dict", items |-> pairs]
PyList(elems) == [kind |-> "list", items |-> elems]

IsDict(v) == v.kind = "dict"

\* Python truthiness: None, {} and [] are falsy.
Truthy(v) == v.kind # "none" /\ Len(v.items) > 0

HasKey(d, k) == \E i \in 1..Len(d.items) : d.items[i][1] = k

\* dict.get(key, default); the caller guards IsDict (AttributeError otherwise).
dict_get(d, k, default) ==
    IF HasKey(d, k)
    THEN d.items[CHOOSE i \in 1..Len(d.items) : d.items[i][1] = k][2]
    ELSE default

\* The value dict.get(key) gives for a missing key (None), as a string that
\* no status of the model equals.
NoneStr == "<None>"

Min(a, b) == IF a <= b THEN a ELSE b

\* As Slice with the end index included: one character too many.
Slice_end_inclusive(s, n) == SubSeq(s, 1, Min(n + 1, Len(s)))

\* s[:n]
Slice(s, n) == SubSeq(s, 1, Min(n, Len(s)))

\* Whether the string (or lexeme sequence) s contains sub.
Contains(s, sub) ==
    \E i \in 1..(Len(s) + 1 - Min(Len(sub), Len(s) + 1)) :
        /\ i + Len(sub) - 1 <= Len(s)
        /\ SubSeq(s, i, i + Len(sub) - 1) = sub

Digit(n) == SubSeq("0123456789", n + 1, n + 1)

RECURSIVE IntStr(_)
\* str(n) of a natural number, as the f-strings format it.
IntStr(n) == IF n < 10 THEN Digit(n) ELSE IntStr(n \div 10) \o Digit(n % 10)

(***************************************************************************)
(* json.dumps / json.loads on the values the handlers serialise            *)
(***************************************************************************)
RECURSIVE dump_pairs(_)
dump_pairs(pairs) ==
    IF pairs = <<>> THEN <<>>
    ELSE <<pairs[1][1], ":", pairs[1][2]>>
         \o (IF Len(pairs) > 1 THEN <<",">> ELSE <<>>)
         \o dump_pairs(Tail(pairs))

\* As json_dumps, losing the last member of an object.
json_dumps_drop_last(v) ==
    IF v.kind = "none" THEN <<"null">>
    ELSE IF v.kind = "list" THEN <<"[">> \o v.items \o <<"]">>
    ELSE <<"{">> \o dump_pairs(SubSeq(v.items, 1, Len(v.items) - 1)) \o <<"}">>

\* json.dumps(v): the lexemes of the JSON text of v.
json_dumps(v) ==
    IF v.kind = "none" THEN <<"null">>
    ELSE IF v.kind = "list" THEN <<"[">> \o v.items \o <<"]">>
    ELSE <<"{">> \o dump_pairs(v.items) \o <<"}">>

RECURSIVE well_formed_pairs(_)
well_formed_pairs(toks) ==
    \/ toks = <<>>
    \/ /\ Len(toks) >= 3
       /\ toks[2] = ":"
       /\ {toks[1], toks[3]} \cap {"{", "}", "[", "]", ":", ","} = {}
       /\ \/ Len(toks) = 3
          \/ /\ Len(toks) >= 7
             /\ toks[4] = ","
             /\ well_formed_pairs(SubSeq(toks, 5, Len(toks)))

RECURSIVE parse_pairs(_)
parse_pairs(toks) ==
    IF Len(toks) < 3 THEN <<>>
    ELSE << <<toks[1], toks[3]>> >> \o parse_pairs(SubSeq(toks, 5, Len(toks)))

Inner(toks) == SubSeq(toks, 2, Len(toks) - 1)

\* Whether json.loads accepts the text (it raises JSONDecodeError otherwise).
json_valid(toks) ==
    \/ toks = <<"null">>
    \/ /\ Len(toks) >= 2 /\ toks[1] = "[" /\ toks[Len(toks)] = "]"
       /\ \A i \in 2..(Len(toks) - 1) : toks[i] \notin {"{", "}", "[", "]", ":", ","}
    \/ /\ Len(toks) >= 2 /\ toks[1] = "{" /\ toks[Len(toks)] = "}"
       /\ well_formed_pairs(Inner(toks))

\* json.loads(text) for a text json_valid accepts.
json_loads(toks) ==
    IF toks = <<"null">> THEN PyNone
    ELSE IF toks[1] = "[" THEN PyList(Inner(toks))
    ELSE PyDict(parse_pairs(Inner(toks)))

(***************************************************************************)
(* The external generative-text service and the judge client               *)
(***************************************************************************)
max_retries == 3

\* Statuses the model may write into a verdict (the schema's status is a
\* free-form string).
ModelStatuses == {"Accepted", "Pending", "Error", "API_KEY_ERROR", "API_CALL_FAILED"}

\* A schema-conformant verdict (AnalysisResponse) with status s.
Verdict(s) ==
    PyDict(<< <<"status", s>>, <<"timeComplexity", "O(n)">>,
              <<"spaceComplexity", "O(1)">>, <<"critique", "Yechim tahlili">> >>)

\* A JSON object that lacks the status field.
NoStatusVerdict ==
    PyDict(<< <<"timeComplexity", "O(n)">>, <<"spaceComplexity", "O(1)">>,
              <<"critique", "Yechim tahlili">> >>)

\* A text json.loads rejects (the model's output cut short).
MalformedText == <<"{", "status", ":">>

\* The embedded texts candidates[0].content.parts[0].text may hold.
ModelTexts ==
    {json_dumps(Verdict(s)) : s \in ModelStatuses}
    \cup {json_dumps(NoStatusVerdict), json_dumps(PyDict(<<>>)), json_dumps(PyNone),
          json_dumps(PyList(<<"x">>)), MalformedText}

\* What one requests.post to the service can come back with.
ServiceResponses ==
    {[http |-> "timeout", candidates |-> FALSE, text |-> <<>>],
     [http |-> "error", candidates |-> FALSE, text |-> <<>>],
     [http |-> "ok", candidates |-> FALSE, text |-> <<>>]}
    \cup {[http |-> "ok", candidates |-> TRUE, text |-> t] : t \in ModelTexts}

NoExc == [type |-> "", text |-> "", status_code |-> 0, detail |-> ""]
Exc(type, text) == [type |-> type, text |-> text, status_code |-> 0, detail |-> ""]

Raised(e) == [exc |-> e, value |-> PyNone]
Returned(v) == [exc |-> NoExc, value |-> v]

\* The body of the try block of one attempt: the exception it raises, or the
\* value it returns, for the service's response resp.
attempt_body(resp) ==
    IF resp.http = "timeout"
    THEN Raised(Exc("Timeout", "HTTPSConnectionPool: Read timed out. (read timeout=45)"))
    ELSE IF resp.http = "error"
    THEN Raised(Exc("HTTPError", "500 Server Error: Internal Server Error for url"))
    ELSE IF ~resp.candidates
    THEN Raised(Exc("KeyError",
        "'Missing candidates from API response. Check API key validity or safety settings.'"))
    ELSE IF ~json_valid(resp.text)
    THEN Raised(Exc("JSONDecodeError", "Expecting value: line 1 column 1 (char 0)"))
    ELSE Returned(json_loads(resp.text))

\* The sentinel of the except HTTPError clause.
api_call_failed_result(e) ==
    PyDict(<< <<"status", "API_CALL_FAILED">>,
              <<"timeComplexity", "Unknown">>,
              <<"spaceComplexity", "Unknown">>,
              <<"critique", "API call failed after " \o IntStr(max_retries)
                  \o " attempts. Check API Key and configuration: " \o e.text>> >>)

\* The sentinel of the except Exception clause.
error_result(e) ==
    PyDict(<< <<"status", "Error">>,
              <<"timeComplexity", "Unknown">>,
              <<"spaceComplexity", "Unknown">>,
              <<"critique", "AI Judge failed to process structured output: " \o e.text>> >>)

\* The exception classes of the model that derive from Exception without
\* being requests.exceptions.HTTPError: requests' Timeout, KeyError and
\* json.JSONDecodeError.
OtherExceptions == {"Timeout", "KeyError", "JSONDecodeError"}

\* As except_clause with the second clause written "except ValueError".
except_clause_value_error(e) ==
    IF e.type = "HTTPError" THEN "HTTPError"
    ELSE IF e.type = "JSONDecodeError" THEN "Exception"
    ELSE "none"

\* The except clause of the retry loop that catches e: "HTTPError" (line 91),
\* "Exception" (line 103), or "none" when e would leave the function.
except_clause(e) ==
    IF e.type = "HTTPError" THEN "HTTPError"
    ELSE IF e.type \in OtherExceptions THEN "Exception"
    ELSE "none"

\* As sentinel_result with the two sentinels exchanged.
sentinel_result_swapped(e) ==
    IF except_clause(e) = "HTTPError" THEN error_result(e) ELSE api_call_failed_result(e)

\* The sentinel the except clause that catches e returns on the last attempt.
sentinel_result(e) ==
    IF except_clause(e) = "HTTPError" THEN api_call_failed_result(e) ELSE error_result(e)

\* if attempt == max_retries - 1
is_last_attempt(attempt) == attempt = max_retries - 1

\* As backoff with the exponent one too high.
backoff_doubled(attempt) == 2 ^ (attempt + 1)

\* time.sleep(2 ** attempt)
backoff(attempt) == 2 ^ attempt

\* The client's observable steps: a request that came back with a result the
\* client returns ("post_ok"), a request that raised ("post_failed"), a sleep.
PostEvent(failed) == [op |-> IF failed THEN "post_failed" ELSE "post_ok", arg |-> 0]
SleepEvent(n) == [op |-> "sleep", arg |-> n]

(***************************************************************************)
(* The database (src/models.py) and the requests in flight                 *)
(***************************************************************************)
Usernames == {"alice"}
Codes == {"class Solution: pass"}

\* The free problems the remote catalog lists (fetch_all_problems_metadata).
RemoteCatalog == {[slug |-> "two-sum", title |-> "Two Sum", difficulty |-> "Easy"]}

\* The slugs a submit request may name: a listed one and an unknown one.
SubmitSlugs == {"two-sum", "no-such-problem"}

\* The prefix of the content the submit handler sends to the judge.
ContentLimit == 500

RECURSIVE Repeat(_, _)
Repeat(s, n) == IF n = 0 THEN "" ELSE s \o Repeat(s, n - 1)

\* A problem statement longer than ContentLimit characters.
LongContent == Repeat("0123456789", ContentLimit \div 10) \o "TAIL"

\* The content the remote catalog returns for a listed problem.
RemoteContent == LongContent

VARIABLES
    users,               \* table users: the usernames, in insertion order
    problems,            \* table problems: the rows, in insertion order
    submissions,         \* table submissions: the rows; the id is the position
    pc,                  \* per request: where its handler stands
    new_submission,      \* per request: id of the row it created (0: none)
    problem_description, \* per request: the description built for the judge
    attempt,             \* per request: the judge client's loop variable
    trace,               \* per request: the client's posts and sleeps, in order
    analysis_result,     \* per request: what the judge client returned
    exc,                 \* per request: the exception in flight in the handler
    status_log,          \* per request: the statuses its UPDATEs committed
    response             \* per request: what the caller received

vars == <<users, problems, submissions, pc, new_submission,
          problem_description, attempt, trace, analysis_result, exc, status_log,
          response>>

db_vars == <<users, problems, submissions>>
client_vars == <<attempt, trace, analysis_result>>

NoResponse ==
    [status_code |-> 0, detail |-> "", message |-> "", submission_id |-> 0,
     status |-> "", analysis |-> PyNone]

\* raise HTTPException(status_code=code, detail=detail), as the caller sees it.
ErrorResponse(code, detail) ==
    [NoResponse EXCEPT !.status_code = code, !.detail = detail]

Init ==
    /\ users = <<>>
    /\ problems = <<>>
    /\ submissions = <<>>
    /\ pc = [r \in Requests |-> "start"]
    /\ new_submission = [r \in Requests |-> 0]
    /\ problem_description = [r \in Requests |-> ""]
    /\ attempt = [r \in Requests |-> 0]
    /\ trace = [r \in Requests |-> <<>>]
    /\ analysis_result = [r \in Requests |-> PyNone]
    /\ exc = [r \in Requests |-> NoExc]
    /\ status_log = [r \in Requests |-> <<>>]
    /\ response = [r \in Requests |-> NoResponse]

SeqToSet(s) == {s[i] : i \in 1..Len(s)}

\* db.query(Problem).filter(Problem.slug == slug).first(): the position of the
\* row, 0 when there is none.
find_problem(slug) ==
    IF \E i \in 1..Len(problems) : problems[i].slug = slug
    THEN CHOOSE i \in 1..Len(problems) : problems[i].slug = slug
    ELSE 0

request_vars == <<pc, new_submission, problem_description, attempt, trace,
                  analysis_result, exc, status_log, response>>

\* POST /signup with a username that is not taken (a taken one answers 400
\* and changes nothing).
signup_user(username) ==
    /\ username \notin SeqToSet(users)
    /\ users' = Append(users, username)
    /\ UNCHANGED <<problems, submissions, request_vars>>

\* POST /cache-problems: a metadata-only row for every listed problem that has
\* none yet.
cache_problems ==
    /\ \E item \in RemoteCatalog : find_problem(item.slug) = 0
    /\ LET item == CHOOSE item \in RemoteCatalog : find_problem(item.slug) = 0
       IN problems' = Append(problems,
              [slug |-> item.slug, title |-> item.title,
               difficulty |-> item.difficulty,
               content_is_null |-> TRUE, content |-> ""])
    /\ UNCHANGED <<users, submissions, request_vars>>

\* GET /problem/{slug} for a cached problem whose content is still None and
\* whose detail the remote catalog returns: the fetched content is stored.
get_problem_details(slug) ==
    /\ find_problem(slug) # 0
    /\ LET i == find_problem(slug) IN
       /\ problems[i].content_is_null
       /\ problems' = [problems EXCEPT ![i].content_is_null = FALSE,
                                       ![i].content = RemoteContent]
    /\ UNCHANGED <<users, submissions, request_vars>>

(***************************************************************************)
(* call_gemini_api_structured: its retry loop, a step at a time            *)
(***************************************************************************)
\* Lines 72-89, the try block of one iteration, for the response resp of the
\* service: the parsed value is returned to the caller (who goes on at
\* returned), or an exception is raised (the except clauses are at excepted).
client_try(r, resp, returned, excepted) ==
    LET out == attempt_body(resp) IN
    IF out.exc = NoExc
    THEN /\ trace' = [trace EXCEPT ![r] = Append(@, PostEvent(FALSE))]
         /\ analysis_result' = [analysis_result EXCEPT ![r] = out.value]
         /\ pc' = [pc EXCEPT ![r] = returned]
         /\ UNCHANGED <<attempt, exc>>
    ELSE /\ trace' = [trace EXCEPT ![r] = Append(@, PostEvent(TRUE))]
         /\ exc' = [exc EXCEPT ![r] = out.exc]
         /\ pc' = [pc EXCEPT ![r] = excepted]
         /\ UNCHANGED <<attempt, analysis_result>>

\* The try block inside the call made by the submit handler.
call_gemini_api_structured_try(r, resp) == client_try(r, resp, "record", "judge_except")

\* Line 515 onwards: one request of the judge call of request r to a service
\* that answers from the set answers.
judge_attempt_against(r, answers) ==
    /\ pc[r] = "judge"
    /\ \E resp \in answers : call_gemini_api_structured_try(r, resp)
    /\ UNCHANGED <<db_vars, new_submission, problem_description, status_log,
                   response>>

judge_attempt(r) == judge_attempt_against(r, ServiceResponses)

\* Lines 91-113, the except clauses: an exception a clause catches gives the
\* sentinel on the last attempt and otherwise a sleep and the next iteration
\* (falling out of the loop returns None, line 115); an exception no clause
\* catches reaches the caller (at raised).
client_except(r, again, returned, raised) ==
    IF except_clause(exc[r]) = "none"
    THEN /\ pc' = [pc EXCEPT ![r] = raised]
         /\ UNCHANGED <<attempt, trace, analysis_result, exc>>
    ELSE IF is_last_attempt(attempt[r])
    THEN /\ analysis_result' = [analysis_result EXCEPT ![r] = sentinel_result(exc[r])]
         /\ pc' = [pc EXCEPT ![r] = returned]
         /\ exc' = [exc EXCEPT ![r] = NoExc]
         /\ UNCHANGED <<attempt, trace>>
    ELSE /\ trace' = [trace EXCEPT ![r] = Append(@, SleepEvent(backoff(attempt[r])))]
         /\ attempt' = [attempt EXCEPT ![r] = @ + 1]
         /\ exc' = [exc EXCEPT ![r] = NoExc]
         /\ IF attempt[r] + 1 < max_retries
            THEN /\ pc' = [pc EXCEPT ![r] = again]
                 /\ UNCHANGED analysis_result
            ELSE /\ analysis_result' = [analysis_result EXCEPT ![r] = PyNone]
                 /\ pc' = [pc EXCEPT ![r] = returned]

\* The except clauses inside the call made by the submit handler, whose try
\* block an uncaught exception reaches.
judge_except(r) ==
    /\ pc[r] = "judge_except"
    /\ client_except(r, "judge", "record", "except")
    /\ UNCHANGED <<db_vars, new_submission, problem_description, status_log,
                   response>>

(***************************************************************************)
(* create_submission (POST /api/submit)                                    *)
(***************************************************************************)
\* The locals of the judge call of request r that the handler does not read
\* again are dropped.
drop_judge_locals(r) ==
    /\ problem_description' = [problem_description EXCEPT ![r] = ""]
    /\ attempt' = [attempt EXCEPT ![r] = 0]
    /\ trace' = [trace EXCEPT ![r] = <<>>]
    /\ analysis_result' = [analysis_result EXCEPT ![r] = PyNone]

\* The handler of request r returns or raises to its caller, who receives
\* resp; its local variables are gone.
finish(r, resp) ==
    /\ response' = [response EXCEPT ![r] = resp]
    /\ pc' = [pc EXCEPT ![r] = "done"]
    /\ drop_judge_locals(r)
    /\ exc' = [exc EXCEPT ![r] = NoExc]

\* The Pending row of lines 498-504 for the next free id.
pending_row(slug, code) ==
    [id |-> Len(submissions) + 1,
     user_id |-> 1,
     problem_slug |-> slug,
     code |-> code,
     language |-> "Python",
     status |-> "Pending",
     analysis_json |-> <<"{", "}">>]

\* As create_submission_begin with the row inserted before the catalog lookup.
create_submission_begin_insert_first(r) ==
    /\ pc[r] = "start"
    /\ \A q \in Requests : q < r => pc[q] # "start"
    /\ \E slug \in SubmitSlugs, code \in Codes :
         IF users = <<>>
         THEN /\ finish(r, ErrorResponse(401, "No users registered. Please sign up first."))
              /\ UNCHANGED <<submissions, new_submission>>
         ELSE /\ submissions' = Append(submissions, pending_row(slug, code))
              /\ IF find_problem(slug) = 0
                 THEN /\ finish(r, ErrorResponse(404,
                                 "Problem '" \o slug \o "' not found in cache."))
                      /\ UNCHANGED new_submission
                 ELSE /\ new_submission' =
                            [new_submission EXCEPT ![r] = Len(submissions) + 1]
                      /\ pc' = [pc EXCEPT ![r] = "try"]
                      /\ UNCHANGED <<response, problem_description, client_vars, exc>>
    /\ UNCHANGED <<users, problems, status_log>>

\* Lines 488-507: the precondition checks and the insert of the Pending row.
\* Requests are numbered in the order in which the server starts them.
create_submission_begin(r) ==
    /\ pc[r] = "start"
    /\ \A q \in Requests : q < r => pc[q] # "start"
    /\ \E slug \in SubmitSlugs, code \in Codes :
         IF users = <<>>
         THEN /\ finish(r, ErrorResponse(401, "No users registered. Please sign up first."))
              /\ UNCHANGED <<submissions, new_submission>>
         ELSE IF find_problem(slug) = 0
         THEN /\ finish(r, ErrorResponse(404,
                               "Problem '" \o slug \o "' not found in cache."))
              /\ UNCHANGED <<submissions, new_submission>>
         ELSE /\ submissions' = Append(submissions, pending_row(slug, code))
              /\ new_submission' = [new_submission EXCEPT ![r] = Len(submissions) + 1]
              /\ pc' = [pc EXCEPT ![r] = "try"]
              /\ UNCHANGED <<response, problem_description, client_vars, exc>>
    /\ UNCHANGED <<users, problems, status_log>>

\* The f-string of line 513 for the problem row p.
describe_problem(p) ==
    "Problem Title: " \o p.title \o "\nDifficulty: " \o p.difficulty
    \o "\nContent: " \o Slice(p.content, ContentLimit) \o "..."

\* As build_description with a content of None read as the empty string.
build_description_none_as_empty(r) ==
    /\ pc[r] = "try"
    /\ LET p == problems[find_problem(submissions[new_submission[r]].problem_slug)] IN
       /\ problem_description' = [problem_description EXCEPT ![r] = describe_problem(p)]
       /\ pc' = [pc EXCEPT ![r] = "judge"]
       /\ UNCHANGED exc
    /\ UNCHANGED <<db_vars, new_submission, client_vars, status_log, response>>

\* Line 513: the description is built from the problem row as it is now; a
\* content of None cannot be sliced (TypeError).
build_description(r) ==
    /\ pc[r] = "try"
    /\ LET p == problems[find_problem(submissions[new_submission[r]].problem_slug)] IN
       IF p.content_is_null
       THEN /\ exc' = [exc EXCEPT ![r] =
                  Exc("TypeError", "'NoneType' object is not subscriptable")]
            /\ pc' = [pc EXCEPT ![r] = "except"]
            /\ UNCHANGED problem_description
       ELSE /\ problem_description' = [problem_description EXCEPT ![r] = describe_problem(p)]
            /\ pc' = [pc EXCEPT ![r] = "judge"]
            /\ UNCHANGED exc
    /\ UNCHANGED <<db_vars, new_submission, client_vars, status_log, response>>

\* As failure_statuses without the sentinel of the except Exception clause.
failure_statuses_without_error == {"API_KEY_ERROR", "API_CALL_FAILED"}

\* The statuses of line 521 that mark a judge failure.
failure_statuses == {"Error", "API_KEY_ERROR", "API_CALL_FAILED"}

\* The condition of line 521, for a dict a.
judge_succeeded(a) ==
    Truthy(a) /\ dict_get(a, "status", NoneStr) \notin failure_statuses

\* Lines 540-542.
failure_status_code(a) ==
    IF Truthy(a) /\ dict_get(a, "status", NoneStr) = "API_KEY_ERROR" THEN 401 ELSE 500

\* HTTPException(status_code=code, detail=detail).
HTTPException(code, detail) ==
    [type |-> "HTTPException", text |-> "", status_code |-> code, detail |-> detail]

\* str(e).  An HTTPException gives "<status_code>: <detail>" where the
\* installed class defines __str__ (has_str) and the empty string where it
\* does not (it is built from keyword arguments, so its args are empty).
exception_str(e, has_str) ==
    IF e.type = "HTTPException"
    THEN IF has_str THEN IntStr(e.status_code) \o ": " \o e.detail ELSE ""
    ELSE e.text

\* As update_submission with the newest row of the ledger written in place of
\* the row of the request.
update_submission_latest_row(r, status, analysis_json) ==
    /\ submissions' = [submissions EXCEPT ![Len(submissions)].status = status,
                                          ![Len(submissions)].analysis_json = analysis_json]
    /\ status_log' = [status_log EXCEPT ![r] = Append(@, status)]

\* UPDATE submissions SET status, analysis_json WHERE id, and commit.
update_submission(r, status, analysis_json) ==
    /\ submissions' = [submissions EXCEPT
           ![new_submission[r]].status = status,
           ![new_submission[r]].analysis_json = analysis_json]
    /\ status_log' = [status_log EXCEPT ![r] = Append(@, status)]

\* The payload of lines 526-531.
success_payload(r, a) ==
    [status_code |-> 200, detail |-> "",
     message |-> "Submission processed successfully.",
     submission_id |-> new_submission[r],
     status |-> dict_get(a, "status", "Unknown"),
     analysis |-> a]

\* Lines 521-547: the judge's result is recorded.  The success branch returns
\* the payload; the failure branch raises its HTTPException inside the try
\* block; .get on a value that is no dict raises AttributeError.
record_outcome(r) ==
    /\ pc[r] = "record"
    /\ LET a == analysis_result[r] IN
       IF ~IsDict(a)
       THEN /\ exc' = [exc EXCEPT ![r] =
                  Exc("AttributeError", "object has no attribute 'get'")]
            /\ pc' = [pc EXCEPT ![r] = "except"]
            /\ drop_judge_locals(r)
            /\ UNCHANGED <<submissions, status_log, response>>
       ELSE IF judge_succeeded(a)
       THEN /\ update_submission(r, dict_get(a, "status", "Unknown"), json_dumps(a))
            /\ finish(r, success_payload(r, a))
       ELSE /\ update_submission(r, "Failed", json_dumps(a))
            /\ exc' = [exc EXCEPT ![r] =
                  HTTPException(failure_status_code(a),
                      "AI Judge failed to produce a valid analysis: "
                      \o dict_get(a, "critique", "AI Judge returned an unknown error."))]
            /\ pc' = [pc EXCEPT ![r] = "except"]
            /\ drop_judge_locals(r)
            /\ UNCHANGED response
    /\ UNCHANGED <<users, problems, new_submission>>

\* Lines 549-553: except Exception catches whatever the try block raised,
\* the HTTPException of line 544 included.
handle_exception(r) ==
    /\ pc[r] = "except"
    /\ submissions' = [submissions EXCEPT ![new_submission[r]].status = "System Error"]
    /\ status_log' = [status_log EXCEPT ![r] = Append(@, "System Error")]
    /\ \E has_str \in BOOLEAN :
         finish(r, ErrorResponse(500,
             "An unexpected error occurred during judging: "
             \o exception_str(exc[r], has_str)))
    /\ UNCHANGED <<users, problems, new_submission>>

\* GET /api/submissions/{submission_id}: the answer for the ledger as it is.
get_submission_result(submission_id) ==
    IF submission_id \notin 1..Len(submissions)
    THEN ErrorResponse(404, "Submission not found.")
    ELSE LET submission == submissions[submission_id] IN
         [status_code |-> 200, detail |-> "", message |-> "",
          submission_id |-> submission.id,
          status |-> submission.status,
          analysis |-> IF submission.analysis_json # <<>>
                       THEN json_loads(submission.analysis_json)
                       ELSE PyDict(<<>>)]

(***************************************************************************)
(* judge_code (POST /api/judge)                                            *)
(***************************************************************************)
\* The f-string of line 123 for the slug the caller sent.
describe_slug(slug) == "Problem Slug: " \o slug \o ". The task is to solve this problem."

\* Line 123: the description is built from the slug alone.
judge_code_begin(r) ==
    /\ pc[r] = "start"
    /\ \A q \in Requests : q < r => pc[q] # "start"
    /\ \E slug \in SubmitSlugs :
         problem_description' = [problem_description EXCEPT ![r] = describe_slug(slug)]
    /\ pc' = [pc EXCEPT ![r] = "jc_call"]
    /\ UNCHANGED <<db_vars, new_submission, client_vars, exc, status_log, response>>

\* Lines 125-128: one request of the judge call of the endpoint.
judge_code_attempt(r) ==
    /\ pc[r] = "jc_call"
    /\ \E resp \in ServiceResponses : client_try(r, resp, "jc_return", "jc_call_except")
    /\ UNCHANGED <<db_vars, new_submission, problem_description, status_log,
                   response>>

\* The except clauses of the client inside the call of the endpoint; the
\* endpoint has no try block, so an uncaught exception leaves the handler.
judge_code_except(r) ==
    /\ pc[r] = "jc_call_except"
    /\ client_except(r, "jc_call", "jc_return", "jc_raise")
    /\ UNCHANGED <<db_vars, new_submission, problem_description, status_log,
                   response>>

\* The payload of lines 131-134.
processed_payload(a) ==
    [status_code |-> 200, detail |-> "", submission_status |-> "Processed",
     analysis |-> a]

\* What the framework answers when a handler raises an exception that is not
\* an HTTPException.
InternalServerError == ErrorResponse(500, "Internal Server Error")

\* Lines 130-141: the answer of the endpoint for the judge's result.  .get on
\* a non-empty value that is no dict raises AttributeError, which nothing
\* catches.
judge_code_return(r) ==
    /\ pc[r] \in {"jc_return", "jc_raise"}
    /\ LET a == analysis_result[r] IN
       IF pc[r] = "jc_raise" \/ (Truthy(a) /\ ~IsDict(a))
       THEN finish(r, InternalServerError)
       ELSE IF Truthy(a) /\ dict_get(a, "status", NoneStr) \notin {"Error", "API_CALL_FAILED"}
       THEN finish(r, processed_payload(a))
       ELSE finish(r, ErrorResponse(500,
                "AI Judge failed to produce a valid analysis: "
                \o (IF Truthy(a) THEN dict_get(a, "critique", "Unknown error")
                    ELSE "Unknown error")))
    /\ UNCHANGED <<db_vars, new_submission, status_log>>

Next ==
    \/ \E u \in Usernames : signup_user(u)
    \/ cache_problems
    \/ \E s \in SubmitSlugs : get_problem_details(s)
    \/ \E r \in Requests : create_submission_begin(r)
    \/ \E r \in Requests : build_description(r)
    \/ \E r \in Requests : judge_attempt(r)
    \/ \E r \in Requests : judge_except(r)
    \/ \E r \in Requests : record_outcome(r)
    \/ \E r \in Requests : handle_exception(r)

Spec == Init /\ [][Next]_vars

\* The service answers every request with an HTTP error status.
ServiceDown == {resp \in ServiceResponses : resp.http = "error"}

NextServiceDown ==
    \/ \E u \in Usernames : signup_user(u)
    \/ cache_problems
    \/ \E s \in SubmitSlugs : get_problem_details(s)
    \/ \E r \in Requests : create_submission_begin(r)
    \/ \E r \in Requests : build_description(r)
    \/ \E r \in Requests : judge_attempt_against(r, ServiceDown)
    \/ \E r \in Requests : judge_except(r)
    \/ \E r \in Requests : record_outcome(r)
    \/ \E r \in Requests : handle_exception(r)

\* The behaviours in which the judge service is down throughout.
SpecServiceDown == Init /\ [][NextServiceDown]_vars

NextBothEndpoints ==
    \/ Next
    \/ \E r \in Requests : judge_code_begin(r)
    \/ \E r \in Requests : judge_code_attempt(r)
    \/ \E r \in Requests : judge_code_except(r)
    \/ \E r \in Requests : judge_code_return(r)

\* The behaviours in which every request goes to either endpoint.
SpecBothEndpoints == Init /\ [][NextBothEndpoints]_vars

(***************************************************************************)
(* Properties                                                              *)
(***************************************************************************)
\* The submission row request r created.
Row(r) == submissions[new_submission[r]]

IsPost(ev) == ev.op \in {"post_ok", "post_failed"}

\* The number of the first n events of t that are requests / failed requests.
Posts(t, n) == Cardinality({i \in 1..n : IsPost(t[i])})
FailedPosts(t, n) == Cardinality({i \in 1..n : t[i].op = "post_failed"})

\* The judge call of request r has just returned after a failed request.
ReturnedAfterFailure(r) ==
    pc[r] = "record" /\ trace[r] # <<>> /\ trace[r][Len(trace[r])].op = "post_failed"

\* v has the shape and a status of the client's sentinel results.
IsSentinel(v) ==
    /\ IsDict(v)
    /\ \A k \in {"status", "timeComplexity", "spaceComplexity", "critique"} : HasKey(v, k)
    /\ dict_get(v, "status", NoneStr) \in {"Error", "API_CALL_FAILED"}

\* C1: once the submit handler has returned or raised to the caller, the stored
\* status of the submission it created is the judge's verdict status, Failed or
\* System Error, and is never Pending.
C1_NeverPendingAfterReturn ==
    \A r \in Requests :
        (pc[r] = "done" /\ new_submission[r] # 0) =>
            /\ Row(r).status # "Pending"
            /\ \/ Row(r).status \in {"Failed", "System Error"}
               \/ response[r].status_code = 200 /\ Row(r).status = response[r].status

\* C2: in every execution of the submit handler the status of the created
\* submission is written exactly once after creation.
C2_StatusWrittenOnce ==
    \A r \in Requests :
        (pc[r] = "done" /\ new_submission[r] # 0) => Len(status_log[r]) = 1

\* C3: when the judge service answers all 3 attempts with an HTTP error
\* status, the handler leaves the stored status Failed and the caller receives
\* a 500 whose detail contains "API call failed after 3 attempts".
C3_ServiceDownStoresFailed ==
    [][\A r \in Requests :
        (/\ pc[r] = "except"
         /\ exc[r].type = "HTTPException"
         /\ Contains(exc[r].detail, "API call failed after 3 attempts")
         /\ pc'[r] = "done") =>
            /\ submissions'[new_submission[r]].status = "Failed"
            /\ response'[r].status_code = 500
            /\ Contains(response'[r].detail, "API call failed after 3 attempts")]_vars

\* C4: one call of the judge client makes at most 3 requests, none after the
\* first successful one, returns after a failed request only when 3 requests
\* have failed, and sleeps 2^(k-2) before attempt k = 2, 3 and at no other time.
C4_RetryBudgetAndBackoff ==
    \A r \in Requests :
        LET t == trace[r] IN
        /\ Posts(t, Len(t)) <= 3
        /\ \A i \in 1..Len(t) :
            /\ t[i].op = "post_ok" => i = Len(t)
            /\ (IsPost(t[i]) /\ i > 1) => t[i - 1] = SleepEvent(2 ^ (Posts(t, i) - 2))
            /\ t[i].op = "sleep" =>
                 /\ i > 1 /\ t[i - 1].op = "post_failed"
                 /\ FailedPosts(t, i) < 3
        /\ ReturnedAfterFailure(r) => FailedPosts(t, Len(t)) = 3
        /\ pc[r] = "record" => (t # <<>> /\ IsPost(t[Len(t)]))

C4_Witness ==
    \E r \in Requests :
        /\ pc[r] = "record"
        /\ trace[r] = <<PostEvent(TRUE), SleepEvent(1), PostEvent(TRUE), SleepEvent(2),
                        PostEvent(TRUE)>>

\* C5: the judge client never lets an exception of its requests reach its
\* caller; its loop ends within the attempt budget, and when every attempt
\* failed it returns a sentinel result.
C5_ClientNeverRaises ==
    \A r \in Requests :
        /\ pc[r] = "except" =>
             exc[r].type \notin {"HTTPError", "Timeout", "KeyError", "JSONDecodeError"}
        /\ pc[r] \in {"judge", "judge_except"} => attempt[r] < 3
        /\ ReturnedAfterFailure(r) => IsSentinel(analysis_result[r])

C5_Witness ==
    \E r \in Requests :
        /\ ReturnedAfterFailure(r)
        /\ dict_get(analysis_result[r], "status", NoneStr) = "Error"
        /\ Contains(dict_get(analysis_result[r], "critique", ""), "Read timed out")

\* C6: the sentinel returned when the third attempt fails has status
\* API_CALL_FAILED if that attempt raised an HTTP error and Error for any other
\* exception, has timeComplexity and spaceComplexity set, and its critique
\* contains the text of that exception; earlier attempts do not matter.
C6_SentinelKind ==
    [][\A r \in Requests :
        (pc[r] = "judge_except" /\ pc'[r] = "record") =>
            LET e == exc[r]
                a == analysis_result'[r]
            IN  /\ FailedPosts(trace[r], Len(trace[r])) = 3
                /\ IsDict(a)
                /\ dict_get(a, "status", NoneStr) =
                     (IF e.type = "HTTPError" THEN "API_CALL_FAILED" ELSE "Error")
                /\ dict_get(a, "timeComplexity", "") # ""
                /\ dict_get(a, "spaceComplexity", "") # ""
                /\ e.text # ""
                /\ Contains(dict_get(a, "critique", ""), e.text)]_vars

C6_Witness ==
    \E r \in Requests :
        /\ ReturnedAfterFailure(r)
        /\ dict_get(analysis_result[r], "status", NoneStr) = "API_CALL_FAILED"
        /\ Contains(dict_get(analysis_result[r], "critique", ""), "500 Server Error")

\* C7: no submission ever has the stored status Error or API_CALL_FAILED, and
\* no success payload carries a result with one of these statuses.
C7_ReservedNeverStored ==
    /\ \A i \in 1..Len(submissions) :
         submissions[i].status \notin {"Error", "API_CALL_FAILED"}
    /\ \A r \in Requests :
         response[r].status_code = 200 =>
            /\ response[r].status \notin {"Error", "API_CALL_FAILED"}
            /\ dict_get(response[r].analysis, "status", NoneStr)
                 \notin {"Error", "API_CALL_FAILED"}

C7_Witness ==
    \E r \in Requests :
        /\ pc[r] = "except"
        /\ exc[r].type = "HTTPException"
        /\ Row(r).status = "Failed"
        /\ dict_get(json_loads(Row(r).analysis_json), "status", NoneStr) = "Error"
        /\ response[r] = NoResponse

\* The outcome C8 describes for request r and the judge result a: the stored
\* status is a's status, retrieval by id gives back a, and the submitter
\* receives the id, the status and a.
RecordedAsVerdict(r, a) ==
    LET S == dict_get(a, "status", NoneStr) IN
    /\ Row(r).status = S
    /\ get_submission_result(new_submission[r]).status_code = 200
    /\ get_submission_result(new_submission[r]).status = S
    /\ get_submission_result(new_submission[r]).analysis = a
    /\ response[r].status_code = 200
    /\ response[r].submission_id = new_submission[r]
    /\ response[r].status = S
    /\ response[r].analysis = a

\* C8 (as stated): when the judge returns a result with a status other than
\* the sentinel statuses Error and API_CALL_FAILED, the handler stores that
\* status and the serialized result, retrieval returns the result, and the
\* response carries the id, the status and the result.
C8_NonSentinelRecorded ==
    [][\A r \in Requests : \A R \in {analysis_result[r]} :
        (/\ pc[r] = "record" /\ pc'[r] # "record"
         /\ IsDict(R)
         /\ HasKey(R, "status")
         /\ dict_get(R, "status", NoneStr) \notin {"Error", "API_CALL_FAILED"}) =>
            RecordedAsVerdict(r, R)']_vars

\* C8 (amended): when the judge returns a result with a status other than
\* Error, API_KEY_ERROR and API_CALL_FAILED, the handler stores that status and
\* the serialized result, retrieval returns the result, and the response
\* carries the id, the status and the result.
C8_AcceptedVerdictRecorded ==
    [][\A r \in Requests : \A R \in {analysis_result[r]} :
        (/\ pc[r] = "record" /\ pc'[r] # "record"
         /\ IsDict(R)
         /\ HasKey(R, "status")
         /\ dict_get(R, "status", NoneStr) \notin {"Error", "API_KEY_ERROR", "API_CALL_FAILED"}) =>
            RecordedAsVerdict(r, R)']_vars

C8_Witness ==
    \E r \in Requests :
        /\ pc[r] = "done"
        /\ new_submission[r] # 0
        /\ Row(r).status = "Accepted"
        /\ RecordedAsVerdict(r, Verdict("Accepted"))

\* C9: a submit request answered 401 (no registered user) or 404 (slug not in
\* the catalog, named in the detail) has left the ledger unchanged and has
\* made no call to the judge.
C9_PreconditionFailureLeavesLedger ==
    [][\A r \in Requests :
        /\ (/\ pc[r] # "done" /\ pc'[r] = "done"
            /\ response'[r].status_code \in {401, 404}) =>
               (pc[r] = "start" /\ trace[r] = <<>>)
        /\ (pc[r] = "start" /\ users = <<>> /\ pc'[r] # "start") => pc'[r] = "done"
        /\ (pc[r] = "start" /\ pc'[r] = "done") =>
            /\ submissions' = submissions
            /\ new_submission'[r] = 0
            /\ trace'[r] = <<>>
            /\ response'[r].status_code \in {401, 404}
            /\ response'[r].status_code = 401 <=> users = <<>>
            /\ response'[r].status_code = 404 =>
                 \E s \in SubmitSlugs :
                    /\ find_problem(s) = 0
                    /\ Contains(response'[r].detail, s)]_vars

C9_Witness ==
    \E r \in Requests :
        /\ response[r].status_code = 404
        /\ Contains(response[r].detail, "no-such-problem")
        /\ new_submission[r] = 0
        /\ Len(submissions) = 1

\* C10: when the judge result is a failure, the caller receives a 401 if the
\* result's status is the API-key status and a 500 otherwise, and the detail
\* carries the judge's critique.
C10_FailureStatusCode ==
    [][\A r \in Requests :
        (pc[r] = "except" /\ exc[r].type = "HTTPException" /\ pc'[r] = "done") =>
            LET a == json_loads(Row(r).analysis_json) IN
            /\ response'[r].status_code =
                 (IF dict_get(a, "status", NoneStr) = "API_KEY_ERROR" THEN 401 ELSE 500)
            /\ Contains(response'[r].detail,
                        dict_get(a, "critique", "AI Judge returned an unknown error."))]_vars

\* v has the shape of the schema AnalysisResponse: an object with the four
\* fields.
ConformsToAnalysisResponse(v) ==
    /\ IsDict(v)
    /\ \A k \in {"status", "timeComplexity", "spaceComplexity", "critique"} : HasKey(v, k)

\* C11: whatever the judge client returns from a successful request (a value
\* that is not one of its own sentinels) has the shape of the schema: a
\* payload that is valid JSON but not such an object is never returned.
C11_ReturnedVerdictConforms ==
    \A r \in Requests :
        (/\ pc[r] = "record"
         /\ trace[r] # <<>>
         /\ trace[r][Len(trace[r])].op = "post_ok")
        => ConformsToAnalysisResponse(analysis_result[r])

\* C12: every stored submission whose status is Pending has the empty object
\* as its analysis payload.
C12_PendingHasEmptyPayload ==
    \A i \in 1..Len(submissions) :
        submissions[i].status = "Pending" => submissions[i].analysis_json = <<"{", "}">>

\* The problem row the submission of request r names.
ProblemOf(r) == problems[find_problem(Row(r).problem_slug)]

\* Request r is inside the judge call (the description has been built).
InJudgeCall(r) == pc[r] \in {"judge", "judge_except", "record"}

\* C14: for a problem whose content is longer than 500 characters, the
\* description the handler builds for the judge is the title, the difficulty
\* and exactly the first 500 characters of the content followed by "...", with
\* nothing of the content beyond the 500th character, and it stays as built
\* for the whole judge call.
C14_DescriptionTruncated ==
    [][\A r \in Requests :
        /\ (pc[r] = "try" /\ pc'[r] = "judge" /\ Len(ProblemOf(r).content) > 500) =>
              LET p == ProblemOf(r)
                  header == "Problem Title: " \o p.title \o "\nDifficulty: "
                            \o p.difficulty \o "\nContent: "
              IN  /\ problem_description'[r] = header \o SubSeq(p.content, 1, 500) \o "..."
                  /\ Len(problem_description'[r]) = Len(header) + 503
                  /\ ~Contains(problem_description'[r],
                               SubSeq(p.content, 501, Len(p.content)))
        /\ (InJudgeCall(r) /\ pc'[r] \in {"judge", "judge_except", "record"}) =>
              problem_description'[r] = problem_description[r]]_vars

C14_Witness ==
    \E r \in Requests :
        /\ pc[r] = "judge"
        /\ Len(ProblemOf(r).content) = 504
        /\ Contains(problem_description[r], "Content: 0123456789")
        /\ Contains(problem_description[r], "Two Sum")

\* C17: a submission for a problem the catalog holds as metadata only (content
\* None) stays Pending while the handler fails to build the description, goes
\* straight to the exception handler without a request to the judge, and ends
\* as System Error with a 500; a request is inside the judge call only for a
\* problem whose content is populated.
C17_MetadataOnlyNeverJudged ==
    [][\A r \in Requests :
        /\ (pc[r] = "try" /\ pc'[r] # "try" /\ ProblemOf(r).content_is_null) =>
              /\ pc'[r] = "except"
              /\ exc'[r].type = "TypeError"
              /\ trace'[r] = <<>>
              /\ submissions'[new_submission[r]].status = "Pending"
        /\ (pc[r] = "except" /\ exc[r].type = "TypeError" /\ pc'[r] = "done") =>
              /\ trace[r] = <<>>
              /\ submissions'[new_submission[r]].status = "System Error"
              /\ response'[r].status_code = 500
        /\ (pc'[r] \in {"judge", "judge_except", "record"}) =>
              ~problems'[find_problem(submissions[new_submission[r]].problem_slug)].content_is_null]_vars

C17_Witness ==
    \E r \in Requests :
        /\ pc[r] = "done"
        /\ new_submission[r] # 0
        /\ ProblemOf(r).content_is_null
        /\ status_log[r] = <<"System Error">>
        /\ Row(r).status = "System Error"
        /\ Row(r).analysis_json = <<"{", "}">>
        /\ response[r].status_code = 500
        /\ Contains(response[r].detail, "NoneType")

\* The status the handler stores for the judge result a, from a alone.
StatusFor(a) ==
    IF a.items = <<>> \/ dict_get(a, "status", NoneStr) \in {"Error", "API_KEY_ERROR", "API_CALL_FAILED"}
    THEN "Failed"
    ELSE dict_get(a, "status", "Unknown")

\* C16: under every interleaving of the submit requests, the requests hold
\* rows with distinct ids, a step of a request changes no row but the one
\* that request created, rows are never removed or renumbered, and what a
\* request writes into its row is determined by its own judge result (or its
\* own exception) alone.
C16_RequestsWriteOwnRowOnly ==
    [][/\ \A r1, r2 \in Requests :
            (r1 # r2 /\ new_submission'[r1] # 0) => new_submission'[r1] # new_submission'[r2]
       /\ Len(submissions') >= Len(submissions)
       /\ \A i \in 1..Len(submissions') : submissions'[i].id = i
       /\ \A i \in 1..Len(submissions) :
            submissions'[i] # submissions[i] =>
                \E r \in Requests : new_submission[r] = i /\ pc'[r] # pc[r]
       /\ \A r \in Requests :
            (pc[r] = "record" /\ pc'[r] # "record") =>
                LET a == analysis_result[r]
                    row == submissions[new_submission[r]]
                IN  submissions'[new_submission[r]] =
                        IF IsDict(a)
                        THEN [row EXCEPT !.status = StatusFor(a),
                                         !.analysis_json = json_dumps(a)]
                        ELSE row
       /\ \A r \in Requests :
            (pc[r] = "except" /\ pc'[r] # "except") =>
                submissions'[new_submission[r]] =
                    [submissions[new_submission[r]] EXCEPT !.status = "System Error"]]_vars

\* Two requests are in flight with a row each; the later one has already
\* stored its verdict while the earlier one has not.
C16_Witness ==
    \E r1, r2 \in Requests :
        /\ r1 # r2
        /\ new_submission[r1] = 1 /\ new_submission[r2] = 2
        /\ pc[r1] = "record" /\ IsDict(analysis_result[r1])
        /\ pc[r2] = "done"
        /\ submissions[1].status = "Pending"
        /\ submissions[2].status = "Accepted"

\* C15: when the exception handler of the submit handler runs, the submission
\* is stored as System Error and the caller receives a 500, and this happens
\* only for an error outside the judge client: never for a submission whose
\* judge result was one of the client's sentinels.
C15_SystemErrorOnlyOutsideJudge ==
    [][\A r \in Requests :
        (pc[r] = "except" /\ pc'[r] = "done") =>
            /\ submissions'[new_submission[r]].status = "System Error"
            /\ response'[r].status_code = 500
            /\ ~IsSentinel(json_loads(submissions'[new_submission[r]].analysis_json))]_vars

\* Request r is inside the standalone judge endpoint.
InJudgeCode(r) == pc[r] \in {"jc_call", "jc_call_except", "jc_return", "jc_raise"}

\* v is a result of the client that signals its failure.
IsFailureResult(v) == IsDict(v) /\ dict_get(v, "status", NoneStr) \in {"Error", "API_CALL_FAILED"}

\* C13: no step of the standalone judge endpoint changes the ledger; for a
\* judge result that is present and not a sentinel it answers 200 with
\* submission_status "Processed" and the result as analysis, and otherwise
\* 500 with a detail that carries the result's critique, or "Unknown error"
\* when there is no result.
C13_JudgeEndpointAnswers ==
    [][\A r \in Requests :
        /\ (pc'[r] # pc[r] /\ (InJudgeCode(r) \/ InJudgeCode(r)')) =>
              UNCHANGED <<db_vars, new_submission>>
        /\ (pc[r] = "jc_return" /\ pc'[r] = "done") =>
              \A a \in {analysis_result[r]} :
                 IF Truthy(a) /\ ~IsFailureResult(a)
                 THEN /\ response'[r].status_code = 200
                      /\ response'[r].submission_status = "Processed"
                      /\ response'[r].analysis = a
                 ELSE /\ response'[r].status_code = 500
                      /\ Contains(response'[r].detail,
                            IF Truthy(a) THEN dict_get(a, "critique", "Unknown error")
                            ELSE "Unknown error")]_vars

====
